---- MODULE Spec2Model ----
(***************************************************************************)
(* ConceptPulse: revision scheduling, mastery progression, weak-concept    *)
(* detection and dashboard aggregation.                                    *)
(*                                                                         *)
(* The repository holds three implementations of the same operations:      *)
(*   "server" - the edge function over the key-value store (index.tsx),    *)
(*   "client" - src/lib/supabase.ts with USE_MOCK = false (localStorage),  *)
(*   "mock"   - src/lib/supabase.ts with USE_MOCK = true  (localStorage).  *)
(* The variable impl says which one a behaviour runs; their stores are     *)
(* disjoint, so a behaviour runs exactly one of them.                      *)
(*                                                                         *)
(* Time: an instant is a number of slots since the epoch day; a day has    *)
(* SlotsPerDay slots. The runtime's local zone is taken to have a fixed    *)
(* offset (the edge runtime runs in UTC), so Date.setDate and              *)
(* Date.toISOString see the same calendar.                                 *)
(* Records are JavaScript objects: functions from field names to values,   *)
(* a missing field is a field outside the DOMAIN. The fields subject,      *)
(* questions, answers, avgTime are carried by the code without being read  *)
(* by any modelled operation and are left out.                             *)
(***************************************************************************)
EXTENDS Integers, Sequences, FiniteSets, TLC

\* ---------------------------------------------------------------- bounds
SlotsPerDay == 2
MaxNow == 15
MaxComplete == 3
MaxStreakCompletes == 8
MaxWeakAreas == 1
MaxLevelCompletes == 5
MaxInflight == 2

Impls == {"server", "client", "mock"}
Anon == "anon"

\* Input profiles. A behaviour keeps one profile; each bounds the requests
\* that are issued (who asks, about what, with which values, how often and
\* how far the clock runs), not what a request does.
\*   corrects: number of correct answers (the quotient correct / total * 100
\*             is a whole number for the values used)
\*   scores:   recallScore as sent in the request body
\*   anyId:    completeRevision is also called with ids of other records
\*   seed:     topics for which user u1 has generated and submitted one
\*             diagnostic each before the behaviour starts
\*   impls:    the implementations the profile is run against
\*   analysis: the analysis service answers in every way, not only with nothing
Profiles ==
    { [name |-> "calendar", analysis |-> FALSE, impls |-> Impls, users |-> {"u1"}, topics |-> {"t1"},
       anon |-> FALSE, faults |-> FALSE, interleave |-> FALSE, corrects |-> {4}, confs |-> {3}, scores |-> {5}, anyId |-> FALSE,
       seed |-> <<>>, maxNow |-> MaxNow, maxGen |-> 1, maxSub |-> 1, maxCmp |-> 1],
      [name |-> "mastery", analysis |-> FALSE, impls |-> {"server"}, users |-> {"u1"}, topics |-> {"t1"},
       anon |-> FALSE, faults |-> FALSE, interleave |-> FALSE, corrects |-> {4}, confs |-> {3}, scores |-> {5, 60, 70, 80},
       anyId |-> FALSE, seed |-> <<>>, maxNow |-> 0, maxGen |-> 1, maxSub |-> 1,
       maxCmp |-> MaxComplete],
      [name |-> "weak", analysis |-> TRUE, impls |-> Impls, users |-> {"u1"}, topics |-> {"t1"},
       anon |-> FALSE, faults |-> FALSE, interleave |-> FALSE, corrects |-> {4, 6}, confs |-> {2, 3}, scores |-> {5},
       anyId |-> FALSE, seed |-> <<>>, maxNow |-> 0, maxGen |-> 1, maxSub |-> 2,
       maxCmp |-> 0],
      [name |-> "records", analysis |-> FALSE, impls |-> {"server", "client"}, users |-> {"u1", "u2"}, topics |-> {"t1"},
       anon |-> TRUE, faults |-> FALSE, interleave |-> FALSE, corrects |-> {4}, confs |-> {3}, scores |-> {5}, anyId |-> TRUE,
       seed |-> <<>>, maxNow |-> 0, maxGen |-> 2, maxSub |-> 2, maxCmp |-> 1],
      [name |-> "streak", analysis |-> FALSE, impls |-> {"server", "client"}, users |-> {"u1"},
       topics |-> {"t1", "t2", "t3"}, anon |-> FALSE, faults |-> FALSE, interleave |-> FALSE, corrects |-> {4}, confs |-> {3},
       scores |-> {5}, anyId |-> FALSE, seed |-> <<"t1", "t2", "t3">>, maxNow |-> 0,
       maxGen |-> 0, maxSub |-> 0, maxCmp |-> MaxStreakCompletes],
      [name |-> "faults", analysis |-> FALSE, impls |-> {"server"}, users |-> {"u1"},
       topics |-> {"t1"}, anon |-> FALSE, faults |-> TRUE, interleave |-> FALSE, corrects |-> {4, 6}, confs |-> {3},
       scores |-> {5}, anyId |-> FALSE, seed |-> <<>>, maxNow |-> 0,
       maxGen |-> 1, maxSub |-> 1, maxCmp |-> 1],
      [name |-> "levels", analysis |-> FALSE, impls |-> {"server"}, users |-> {"u1"},
       topics |-> {"t1"}, anon |-> FALSE, faults |-> FALSE, interleave |-> FALSE, corrects |-> {4}, confs |-> {3},
       scores |-> {80}, anyId |-> FALSE, seed |-> <<"t1">>, maxNow |-> 0,
       maxGen |-> 1, maxSub |-> 1, maxCmp |-> MaxLevelCompletes],
      [name |-> "interleave", analysis |-> FALSE, impls |-> {"server"}, users |-> {"u1"},
       topics |-> {"t1"}, anon |-> FALSE, faults |-> FALSE, interleave |-> TRUE,
       corrects |-> {4}, confs |-> {3}, scores |-> {80}, anyId |-> FALSE,
       seed |-> <<"t1">>, maxNow |-> 0, maxGen |-> 1, maxSub |-> 1, maxCmp |-> 2],
      [name |-> "slider", analysis |-> FALSE, impls |-> {"server"}, users |-> {"u1"},
       topics |-> {"t1"}, anon |-> FALSE, faults |-> FALSE, interleave |-> FALSE,
       corrects |-> {4}, confs |-> {3}, scores |-> {1, 10}, anyId |-> FALSE,
       seed |-> <<"t1">>, maxNow |-> 0, maxGen |-> 1, maxSub |-> 1,
       maxCmp |-> MaxComplete],
      [name |-> "resubmit", analysis |-> FALSE, impls |-> {"server"},
       users |-> {"u1"}, topics |-> {"t1"}, anon |-> FALSE, faults |-> FALSE,
       interleave |-> FALSE, corrects |-> {4}, confs |-> {3}, scores |-> {5},
       anyId |-> FALSE, seed |-> <<>>, maxNow |-> 2 * SlotsPerDay, maxGen |-> 1,
       maxSub |-> 2, maxCmp |-> 1],
      [name |-> "resubmitLocal", analysis |-> FALSE, impls |-> {"client"},
       users |-> {"u1"}, topics |-> {"t1"}, anon |-> FALSE, faults |-> FALSE,
       interleave |-> FALSE, corrects |-> {4}, confs |-> {3}, scores |-> {5},
       anyId |-> FALSE, seed |-> <<>>, maxNow |-> 2 * SlotsPerDay, maxGen |-> 0,
       maxSub |-> 2, maxCmp |-> 1],
      [name |-> "tenants", analysis |-> FALSE, impls |-> {"mock"}, users |-> {"u1", "u2"},
       topics |-> {"t1"}, anon |-> FALSE, faults |-> FALSE, interleave |-> FALSE,
       corrects |-> {4}, confs |-> {3}, scores |-> {5}, anyId |-> TRUE, seed |-> <<>>,
       maxNow |-> 0, maxGen |-> 1, maxSub |-> 1, maxCmp |-> 1] }

\* --------------------------------------------------------- calendar (Date)
\* the calendar date of day number 0
Epoch == <<2024, 12, 28>>

IsLeap(y) == (y % 4 = 0 /\ y % 100 # 0) \/ y % 400 = 0

DaysInMonth(y, m) ==
    IF m = 2 THEN (IF IsLeap(y) THEN 29 ELSE 28)
    ELSE IF m \in {4, 6, 9, 11} THEN 30 ELSE 31

RECURSIVE DaysBeforeMonth(_, _)
DaysBeforeMonth(y, m) ==
    IF m = 1 THEN 0 ELSE DaysBeforeMonth(y, m - 1) + DaysInMonth(y, m - 1)

RECURSIVE DaysBeforeYear(_)
DaysBeforeYear(y) ==
    IF y = Epoch[1] THEN 0
    ELSE DaysBeforeYear(y - 1) + (IF IsLeap(y - 1) THEN 366 ELSE 365)

AbsDay(y, m, d) == DaysBeforeYear(y) + DaysBeforeMonth(y, m) + d - 1

\* ECMAScript MakeDay(year, month, date): day number of the 1st of the month
\* plus date - 1; the date may exceed the month's length.
MakeDay(y, m, d) == AbsDay(y, m, d) - AbsDay(Epoch[1], Epoch[2], Epoch[3])

RECURSIVE YMDFrom(_, _, _)
YMDFrom(y, m, d) ==
    IF d > DaysInMonth(y, m)
    THEN (IF m = 12 THEN YMDFrom(y + 1, 1, d - DaysInMonth(y, m))
                    ELSE YMDFrom(y, m + 1, d - DaysInMonth(y, m)))
    ELSE <<y, m, d>>

\* year, month, day of a day number
YMDOfDay(n) == YMDFrom(Epoch[1], Epoch[2], Epoch[3] + n)

DayOf(t) == t \div SlotsPerDay
TimeOfDay(t) == t % SlotsPerDay

\* mutant: the days are added to the instant as if a day had one slot
AddDaysMut(t, day) == t + day

\* new Date(now); d.setDate(d.getDate() + day)
AddDays(t, day) ==
    LET ymd == YMDOfDay(DayOf(t))
    IN  MakeDay(ymd[1], ymd[2], ymd[3] + day) * SlotsPerDay + TimeOfDay(t)

\* d.toISOString().split('T')[0]: the zero-padded "YYYY-MM-DD" text
IsoDate(t) == YMDOfDay(DayOf(t))

\* mutant: the comparison of the two dates is strict
IsoLeqMut(a, b) ==
    \/ a[1] < b[1]
    \/ a[1] = b[1] /\ a[2] < b[2]
    \/ a[1] = b[1] /\ a[2] = b[2] /\ a[3] < b[3]

\* a <= b on two "YYYY-MM-DD" strings: character-wise, i.e. field-wise
IsoLeq(a, b) ==
    \/ a[1] < b[1]
    \/ a[1] = b[1] /\ a[2] < b[2]
    \/ a[1] = b[1] /\ a[2] = b[2] /\ a[3] <= b[3]

\* ------------------------------------------------------------- JS objects
EmptyObj == [f \in {} |-> 0]
Has(o, f) == f \in DOMAIN o
\* { ...a, ...b }
Spread(a, b) == [f \in (DOMAIN a) \cup (DOMAIN b) |-> IF f \in DOMAIN b THEN b[f] ELSE a[f]]
\* o.f || 0 for a numeric field
OrZero(o, f) == IF Has(o, f) THEN o[f] ELSE 0
\* !o.completed
NotCompleted(o) == ~(Has(o, "completed") /\ o.completed)

\* recorded is history: for each progress key, the mastery levels the
\* completions have stored under it so far. acked is history: the completions
\* answered with 200, each with its revision id, progress key and day field.
\* pending holds the POST /revisions/complete requests that are suspended at
\* an await, each with what it has read.
VARIABLES impl, profile, now, kv, ls, session, last, cnt, recorded, acked, pending

vars == <<impl, profile, now, kv, ls, session, last, cnt, recorded, acked, pending>>

Auths == profile.users \cup (IF profile.anon THEN {Anon} ELSE {})

\* the response of the last request handled at the current instant, with
\* what the request was and wrote; pre holds the records the request read
Response(op, user, status, id, arg, written, ret, pre) ==
    [op |-> op, user |-> user, status |-> status, id |-> id, arg |-> arg,
     written |-> written, ret |-> ret, pre |-> pre]

NoResponse == Response("none", Anon, 0, <<>>, <<>>, {}, <<>>, <<>>)

\* mutant: the count is not capped
MinSevenMut(n) == n

\* Math.min(n, 7)
MinSeven(n) == IF n < 7 THEN n ELSE 7

\* ------------------------------------------------- key-value store (kv.*)
KvGet(store, key) == IF key \in DOMAIN store THEN store[key] ELSE EmptyObj
KvHas(store, key) == key \in DOMAIN store
KvSet(store, key, value) ==
    [k \in (DOMAIN store) \cup {key} |-> IF k = key THEN value ELSE store[k]]
\* keys are prefix:userId:rest; getByPrefix is called with prefix:userId
KvKeysByPrefix(store, prefix, user) ==
    {k \in DOMAIN store : k[1] = prefix /\ k[2] = user}

\* a key no request has created
MissingKey == <<"revision", "nobody", "t1", 1>>

\* ------------------------------------------------------------ edge server
RevisionDays == <<1, 3, 7>>

DayScoreField(revision) ==
    IF ~Has(revision, "revision_day") THEN "dayundefined_score"
    ELSE IF revision.revision_day = 1 THEN "day1_score"
    ELSE IF revision.revision_day = 3 THEN "day3_score"
    ELSE "day7_score"

\* revision.revision_day as a number; a missing field compares false with
\* every test of calculateMasteryLevel, as 0 does
DayNumber(revision) == IF Has(revision, "revision_day") THEN revision.revision_day ELSE 0

\* mutant: the score just submitted stands in for the stored score of its day
calculateMasteryLevelMut(progress, day, score) ==
    LET day1 == IF day = 1 THEN score ELSE OrZero(progress, "day1_score")
        day3 == IF day = 3 THEN score ELSE OrZero(progress, "day3_score")
        day7 == IF day = 7 THEN score ELSE OrZero(progress, "day7_score")
    IN  IF day = 7 /\ day7 >= 80 THEN "mastered"
        ELSE IF day >= 3 /\ day3 >= 70 /\ day1 >= 60 THEN "improving"
        ELSE IF day = 1 /\ day1 >= 60 THEN "learning"
        ELSE "weak"

\* mutant: the thresholds are those of a scale of 1 to 10
calculateMasteryLevelTen(progress, day, score) ==
    LET day1 == OrZero(progress, "day1_score")
        day3 == OrZero(progress, "day3_score")
        day7 == OrZero(progress, "day7_score")
    IN  IF day = 7 /\ day7 >= 8 THEN "mastered"
        ELSE IF day >= 3 /\ day3 >= 7 /\ day1 >= 6 THEN "improving"
        ELSE IF day = 1 /\ day1 >= 6 THEN "learning"
        ELSE "weak"

\* mutant: a level once stored is kept unless the scores give a higher one
calculateMasteryLevelKeep(progress, day, score) ==
    LET day1 == OrZero(progress, "day1_score")
        day3 == OrZero(progress, "day3_score")
        day7 == OrZero(progress, "day7_score")
        level == IF day = 7 /\ day7 >= 80 THEN "mastered"
                 ELSE IF day >= 3 /\ day3 >= 70 /\ day1 >= 60 THEN "improving"
                 ELSE IF day = 1 /\ day1 >= 60 THEN "learning"
                 ELSE "weak"
        Order(l) == IF l = "weak" THEN 0 ELSE IF l = "learning" THEN 1
                    ELSE IF l = "improving" THEN 2 ELSE 3
    IN  IF Has(progress, "mastery_level") /\ Order(progress.mastery_level) > Order(level)
        THEN progress.mastery_level ELSE level

calculateMasteryLevel(progress, day, score) ==
    LET day1 == OrZero(progress, "day1_score")
        day3 == OrZero(progress, "day3_score")
        day7 == OrZero(progress, "day7_score")
    IN  IF day = 7 /\ day7 >= 80 THEN "mastered"
        ELSE IF day >= 3 /\ day3 >= 70 /\ day1 >= 60 THEN "improving"
        ELSE IF day = 1 /\ day1 >= 60 THEN "learning"
        ELSE "weak"

\* score < 70 || confidence < 3
SrvIsWeak(score, confidence) == score < 70 \/ confidence < 3

\* mutant: a submission that is not weak removes the topic's weak concept
SrvRecordWeakMut(store, user, topic, score, confidence, t) ==
    IF SrvIsWeak(score, confidence)
    THEN KvSet(store, <<"weak", user, topic>>,
               [user_id |-> user, topic |-> topic, score |-> score,
                confidence |-> confidence, created_at |-> t])
    ELSE [k \in (DOMAIN store) \ {<<"weak", user, topic>>} |-> store[k]]

\* if (score < 70 || confidence < 3) await kv.set(weakConceptId, {...})
SrvRecordWeak(store, user, topic, score, confidence, t) ==
    IF SrvIsWeak(score, confidence)
    THEN KvSet(store, <<"weak", user, topic>>,
               [user_id |-> user, topic |-> topic, score |-> score,
                confidence |-> confidence, created_at |-> t])
    ELSE store

\* the scheduled revision record of one day
SrvRevisionRecord(user, topic, day, t) ==
    [user_id |-> user, topic |-> topic, revision_day |-> day,
     scheduled_date |-> AddDays(t, day), completed |-> FALSE]

SrvRevisionKeys(user, topic) ==
    {<<"revision", user, topic, RevisionDays[i]>> : i \in 1..Len(RevisionDays)}

RECURSIVE SrvScheduleRevisions(_, _, _, _, _)
SrvScheduleRevisions(store, user, topic, t, i) ==
    IF i > Len(RevisionDays) THEN store
    ELSE SrvScheduleRevisions(
            KvSet(store, <<"revision", user, topic, RevisionDays[i]>>,
                  SrvRevisionRecord(user, topic, RevisionDays[i], t)),
            user, topic, t, i + 1)

\* r.scheduled_date.split('T')[0] <= today && !r.completed
SrvIsDue(r, t) == IsoLeq(IsoDate(r.scheduled_date), IsoDate(t)) /\ NotCompleted(r)

\* Each handler is a function of the store, the request and the clock; it
\* yields the store after the request and the response. stamp stands for
\* Date.now() in a key.

\* POST /diagnostic/generate
SrvGenerateDo(store, auth, topic, stamp) ==
    IF auth = Anon
    THEN [store |-> store,
          resp |-> Response("generate", auth, 401, <<>>, <<>>, {}, <<>>, <<>>)]
    ELSE LET diagnosticId == <<"diagnostic", auth, stamp>>
             diagnostic == [id |-> diagnosticId, user_id |-> auth, topic |-> topic,
                            questions |-> 8, completed |-> FALSE]
         IN  [store |-> KvSet(store, diagnosticId, diagnostic),
              resp |-> Response("generate", auth, 200, diagnosticId, <<>>,
                                {diagnosticId}, diagnostic, <<>>)]

\* POST /diagnostic/submit
SrvSubmitDo(store, auth, diagnosticId, correct, confidence, t, stamp) ==
    IF auth = Anon
    THEN [store |-> store,
          resp |-> Response("submit", auth, 401, diagnosticId, <<>>, {}, <<>>, <<>>)]
    ELSE IF ~KvHas(store, diagnosticId) \/ ~Has(store[diagnosticId], "user_id")
            \/ store[diagnosticId].user_id # auth
    THEN [store |-> store,
          resp |-> Response("submit", auth, 404, diagnosticId, <<>>, {}, <<>>, <<>>)]
    ELSE IF ~Has(store[diagnosticId], "questions")
    THEN \* diagnostic.questions.forEach throws before any write
         [store |-> store,
          resp |-> Response("submit", auth, 500, diagnosticId, <<>>, {}, <<>>, <<>>)]
    ELSE LET diagnostic == store[diagnosticId]
             score == (correct * 100) \div diagnostic.questions
             result == [diagnosticId |-> diagnosticId, score |-> score,
                        correct |-> correct, total |-> diagnostic.questions,
                        confidence |-> confidence, topic |-> diagnostic.topic,
                        completed_at |-> t]
             resultId == <<"result", auth, stamp>>
             weakConceptId == <<"weak", auth, diagnostic.topic>>
             kv1 == KvSet(store, diagnosticId,
                          Spread(diagnostic, [completed |-> TRUE, result |-> result]))
             kv2 == KvSet(kv1, resultId, result)
             kv3 == SrvRecordWeak(kv2, auth, diagnostic.topic, score, confidence, t)
             written == {diagnosticId, resultId}
                        \cup (IF SrvIsWeak(score, confidence) THEN {weakConceptId} ELSE {})
                        \cup SrvRevisionKeys(auth, diagnostic.topic)
         IN  [store |-> SrvScheduleRevisions(kv3, auth, diagnostic.topic, t, 1),
              resp |-> Response("submit", auth, 200, diagnosticId,
                                [score |-> score, confidence |-> confidence,
                                 topic |-> diagnostic.topic, at |-> t],
                                written, result, <<>>)]

\* the revisions the loop has written when its (n + 1)-th kv.set throws
RECURSIVE SrvSchedulePrefix(_, _, _, _, _)
SrvSchedulePrefix(store, user, topic, t, n) ==
    IF n = 0 THEN store
    ELSE KvSet(SrvSchedulePrefix(store, user, topic, t, n - 1),
               <<"revision", user, topic, RevisionDays[n]>>,
               SrvRevisionRecord(user, topic, RevisionDays[n], t))

\* mutant: the revisions are scheduled before the result is written
SrvSubmitFailDoMut(store, auth, diagnosticId, correct, confidence, t, stamp, failAt) ==
    LET diagnostic == store[diagnosticId]
        score == (correct * 100) \div diagnostic.questions
        result == [diagnosticId |-> diagnosticId, score |-> score,
                   correct |-> correct, total |-> diagnostic.questions,
                   confidence |-> confidence, topic |-> diagnostic.topic,
                   completed_at |-> t]
        kv1 == KvSet(store, diagnosticId,
                     Spread(diagnostic, [completed |-> TRUE, result |-> result]))
        kv2 == SrvScheduleRevisions(kv1, auth, diagnostic.topic, t, 1)
        kv3 == KvSet(kv2, <<"result", auth, stamp>>, result)
        after == IF failAt = 1 THEN store
                 ELSE IF failAt = 2 THEN kv2
                 ELSE IF failAt = 3 THEN kv3
                 ELSE SrvRecordWeak(kv3, auth, diagnostic.topic, score, confidence, t)
    IN  [store |-> after,
         resp |-> Response("submit", auth, 500, diagnosticId,
                           [score |-> score, confidence |-> confidence,
                            topic |-> diagnostic.topic, at |-> t, failAt |-> failAt],
                           {k \in DOMAIN after : ~KvHas(store, k) \/ store[k] # after[k]},
                           <<>>, <<>>)]

\* POST /diagnostic/submit of a request that passes the checks, when the
\* failAt-th kv.set of the handler throws: 1 the diagnostic, 2 the result,
\* 3 the weak concept (written only for a weak submission), 4 and up the
\* revisions. The writes before it stand; the catch answers 500.
SrvSubmitFailDo(store, auth, diagnosticId, correct, confidence, t, stamp, failAt) ==
    LET diagnostic == store[diagnosticId]
        score == (correct * 100) \div diagnostic.questions
        result == [diagnosticId |-> diagnosticId, score |-> score,
                   correct |-> correct, total |-> diagnostic.questions,
                   confidence |-> confidence, topic |-> diagnostic.topic,
                   completed_at |-> t]
        resultId == <<"result", auth, stamp>>
        kv1 == KvSet(store, diagnosticId,
                     Spread(diagnostic, [completed |-> TRUE, result |-> result]))
        kv2 == KvSet(kv1, resultId, result)
        kv3 == SrvRecordWeak(kv2, auth, diagnostic.topic, score, confidence, t)
        after == IF failAt = 1 THEN store
                 ELSE IF failAt = 2 THEN kv1
                 ELSE IF failAt = 3 THEN kv2
                 ELSE SrvSchedulePrefix(kv3, auth, diagnostic.topic, t, failAt - 4)
    IN  [store |-> after,
         resp |-> Response("submit", auth, 500, diagnosticId,
                           [score |-> score, confidence |-> confidence,
                            topic |-> diagnostic.topic, at |-> t, failAt |-> failAt],
                           {k \in DOMAIN after : ~KvHas(store, k) \/ store[k] # after[k]},
                           <<>>, <<>>)]

\* GET /revisions
SrvGetRevisionsDo(store, auth, t) ==
    IF auth = Anon
    THEN Response("getRevisions", auth, 401, <<>>, <<>>, {}, <<>>, <<>>)
    ELSE LET allRevisions == KvKeysByPrefix(store, "revision", auth)
             todaysRevisions == {k \in allRevisions : SrvIsDue(store[k], t)}
         IN  Response("getRevisions", auth, 200, <<>>, [at |-> t], {},
                      {store[k] : k \in todaysRevisions}, <<>>)

\* mutant: the owner of the record is not compared with the caller
SrvCompleteRevisionDoMut(store, auth, revisionId, recallScore, t) ==
    IF auth = Anon
    THEN [store |-> store,
          resp |-> Response("complete", auth, 401, revisionId, <<>>, {}, <<>>, <<>>)]
    ELSE IF ~KvHas(store, revisionId) \/ ~Has(store[revisionId], "user_id")
    THEN [store |-> store,
          resp |-> Response("complete", auth, 404, revisionId, <<>>, {}, <<>>, <<>>)]
    ELSE LET revision == store[revisionId]
             updated == Spread(revision, [completed |-> TRUE, recall_score |-> recallScore,
                                          completed_at |-> t])
             kv1 == KvSet(store, revisionId, updated)
             progressId == <<"progress", auth, revision.topic>>
             existingProgress == KvGet(kv1, progressId)
             progress ==
                 Spread(existingProgress,
                     [f \in {"user_id", "topic", DayScoreField(revision),
                              "mastery_level", "updated_at"} |->
                         IF f = "user_id" THEN auth
                         ELSE IF f = "topic" THEN revision.topic
                         ELSE IF f = "mastery_level"
                              THEN calculateMasteryLevel(existingProgress,
                                                         DayNumber(revision), recallScore)
                         ELSE IF f = "updated_at" THEN t
                         ELSE recallScore])
         IN  [store |-> KvSet(kv1, progressId, progress),
              resp |-> Response("complete", auth, 200, revisionId, recallScore,
                                {revisionId, progressId},
                                [revision |-> updated, progress |-> progress],
                                [revision |-> revision, progress |-> existingProgress])]

\* POST /revisions/complete
SrvCompleteRevisionDo(store, auth, revisionId, recallScore, t) ==
    IF auth = Anon
    THEN [store |-> store,
          resp |-> Response("complete", auth, 401, revisionId, <<>>, {}, <<>>, <<>>)]
    ELSE IF ~KvHas(store, revisionId) \/ ~Has(store[revisionId], "user_id")
            \/ store[revisionId].user_id # auth
    THEN [store |-> store,
          resp |-> Response("complete", auth, 404, revisionId, <<>>, {}, <<>>, <<>>)]
    ELSE LET revision == store[revisionId]
             updated == Spread(revision, [completed |-> TRUE, recall_score |-> recallScore,
                                          completed_at |-> t])
             kv1 == KvSet(store, revisionId, updated)
             progressId == <<"progress", auth, revision.topic>>
             existingProgress == KvGet(kv1, progressId)
             progress ==
                 Spread(existingProgress,
                     [f \in {"user_id", "topic", DayScoreField(revision),
                              "mastery_level", "updated_at"} |->
                         IF f = "user_id" THEN auth
                         ELSE IF f = "topic" THEN revision.topic
                         ELSE IF f = "mastery_level"
                              THEN calculateMasteryLevel(existingProgress,
                                                         DayNumber(revision), recallScore)
                         ELSE IF f = "updated_at" THEN t
                         ELSE recallScore])
         IN  [store |-> KvSet(kv1, progressId, progress),
              resp |-> Response("complete", auth, 200, revisionId, recallScore,
                                {revisionId, progressId},
                                [revision |-> updated, progress |-> progress],
                                [revision |-> revision, progress |-> existingProgress])]

\* POST /revisions/complete of an authorized request when the failAt-th
\* storage call of the handler throws: 1 kv.get of the revision, 2 kv.set of
\* the revision, 3 kv.get of the progress, 4 kv.set of the progress. From 2
\* on the request is one that passes the 404 check. What was written before
\* the throw stands; the catch answers 500.
SrvCompleteRevisionFailDo(store, auth, revisionId, recallScore, t, failAt) ==
    LET after == IF failAt <= 2 THEN store
                 ELSE KvSet(store, revisionId,
                            Spread(store[revisionId],
                                   [completed |-> TRUE, recall_score |-> recallScore,
                                    completed_at |-> t]))
    IN  [store |-> after,
         resp |-> Response("complete", auth, 500, revisionId,
                           [recallScore |-> recallScore, failAt |-> failAt],
                           {k \in DOMAIN after : ~KvHas(store, k) \/ store[k] # after[k]},
                           <<>>, <<>>)]

\* GET /dashboard
SrvDashboardDo(store, auth, t) ==
    IF auth = Anon
    THEN Response("dashboard", auth, 401, <<>>, <<>>, {}, <<>>, <<>>)
    ELSE LET weakConcepts == KvKeysByPrefix(store, "weak", auth)
             revisions == KvKeysByPrefix(store, "revision", auth)
             progress == KvKeysByPrefix(store, "progress", auth)
             completedRevisions == {k \in revisions : ~NotCompleted(store[k])}
             streak == MinSeven(Cardinality(completedRevisions))
             todaysRevisions == {k \in revisions : SrvIsDue(store[k], t)}
         IN  Response("dashboard", auth, 200, <<>>, [at |-> t], {},
                      [weakConceptsCount |-> Cardinality(weakConcepts),
                       upcomingRevisionsCount |-> Cardinality(todaysRevisions),
                       masteryProgress |-> Cardinality(progress),
                       streak |-> streak], <<>>)

\* what acked keeps of a completion answered with 200: the revision id it
\* was called with, the progress key and day score field it wrote, and
\* whether the revision was due when it was completed
Acknowledged(auth, revisionId, revision, t) ==
    [revision |-> revisionId, progress |-> <<"progress", auth, revision.topic>>,
     field |-> DayScoreField(revision),
     due |-> Has(revision, "scheduled_date") /\ SrvIsDue(revision, t)]

SrvGenerate(auth, topic) ==
    /\ impl = "server"
    /\ cnt.gen < profile.maxGen
    /\ LET r == SrvGenerateDo(kv, auth, topic, cnt.gen + 1)
       IN  /\ kv' = r.store
           /\ last' = r.resp
           /\ cnt' = IF r.resp.status = 200 THEN [cnt EXCEPT !.gen = @ + 1] ELSE cnt
    /\ UNCHANGED <<pending, acked, recorded, impl, profile, now, ls, session>>

SrvSubmit(auth, diagnosticId, correct, confidence) ==
    /\ impl = "server"
    /\ cnt.sub < profile.maxSub
    /\ LET r == SrvSubmitDo(kv, auth, diagnosticId, correct, confidence, now, cnt.sub + 1)
       IN  /\ kv' = r.store
           /\ last' = r.resp
           /\ cnt' = IF r.resp.status = 200 THEN [cnt EXCEPT !.sub = @ + 1] ELSE cnt
    /\ UNCHANGED <<pending, acked, recorded, impl, profile, now, ls, session>>

\* a kv.set of the submit handler throws (the store is unreachable or
\* rejects the write); the request is one that would have succeeded
SrvSubmitFails(auth, diagnosticId, correct, confidence, failAt) ==
    /\ impl = "server"
    /\ profile.faults
    /\ cnt.sub < profile.maxSub
    /\ SrvSubmitDo(kv, auth, diagnosticId, correct, confidence, now, cnt.sub + 1).resp.status = 200
    /\ failAt = 3 => SrvIsWeak((correct * 100) \div kv[diagnosticId].questions, confidence)
    /\ LET r == SrvSubmitFailDo(kv, auth, diagnosticId, correct, confidence, now,
                                cnt.sub + 1, failAt)
       IN  /\ kv' = r.store
           /\ last' = r.resp
    /\ UNCHANGED <<pending, acked, recorded, impl, profile, now, ls, session, cnt>>

SrvGetRevisions(auth) ==
    /\ impl = "server"
    /\ last' = SrvGetRevisionsDo(kv, auth, now)
    /\ UNCHANGED <<pending, acked, recorded, impl, profile, now, kv, ls, session, cnt>>

SrvCompleteRevision(auth, revisionId, recallScore) ==
    /\ impl = "server"
    /\ cnt.cmp < profile.maxCmp
    /\ LET r == SrvCompleteRevisionDo(kv, auth, revisionId, recallScore, now)
       IN  /\ kv' = r.store
           /\ last' = r.resp
           /\ cnt' = IF r.resp.status = 200 THEN [cnt EXCEPT !.cmp = @ + 1] ELSE cnt
           /\ recorded' = IF r.resp.status = 200
                          THEN LET progressId == <<"progress", auth, r.resp.ret.progress.topic>>
                               IN  KvSet(recorded, progressId,
                                         (IF KvHas(recorded, progressId)
                                          THEN recorded[progressId] ELSE {})
                                         \cup {r.resp.ret.progress.mastery_level})
                          ELSE recorded
           /\ acked' = IF r.resp.status = 200
                       THEN acked \cup {Acknowledged(auth, revisionId, r.resp.pre.revision,
                                                     now)}
                       ELSE acked
    /\ UNCHANGED <<pending, impl, profile, now, ls, session>>

\* The same handler, one await at a time, for requests that run while others
\* are suspended. A request is started with the ids and scores of the atomic
\* one and passes the 404 check.

\* const revision = await kv.get(revisionId), and the checks
SrvCompleteStart(slot, auth, revisionId, recallScore) ==
    /\ impl = "server"
    /\ profile.interleave
    /\ slot \notin DOMAIN pending
    /\ \A lower \in 1..(slot - 1) : lower \in DOMAIN pending
    /\ cnt.cmp + Cardinality(DOMAIN pending) < profile.maxCmp
    /\ SrvCompleteRevisionDo(kv, auth, revisionId, recallScore, now).resp.status = 200
    /\ pending' = KvSet(pending, slot,
                        [auth |-> auth, revisionId |-> revisionId,
                         recallScore |-> recallScore, revision |-> kv[revisionId],
                         pc |-> "setRevision", hasProgress |-> FALSE,
                         existingProgress |-> EmptyObj])
    /\ last' = NoResponse
    /\ UNCHANGED <<impl, profile, now, kv, ls, session, cnt, recorded, acked>>

\* await kv.set(revisionId, updated)
SrvCompleteSetRevision(slot) ==
    /\ slot \in DOMAIN pending
    /\ pending[slot].pc = "setRevision"
    /\ kv' = KvSet(kv, pending[slot].revisionId,
                   Spread(pending[slot].revision,
                          [completed |-> TRUE, recall_score |-> pending[slot].recallScore,
                           completed_at |-> now]))
    /\ pending' = [pending EXCEPT ![slot].pc = "getProgress"]
    /\ last' = NoResponse
    /\ UNCHANGED <<impl, profile, now, ls, session, cnt, recorded, acked>>

\* const existingProgress = await kv.get(progressId) || {}
SrvCompleteGetProgress(slot) ==
    /\ slot \in DOMAIN pending
    /\ pending[slot].pc = "getProgress"
    /\ LET progressId == <<"progress", pending[slot].auth, pending[slot].revision.topic>>
       IN  pending' = [pending EXCEPT ![slot].pc = "setProgress",
                                      ![slot].hasProgress = KvHas(kv, progressId),
                                      ![slot].existingProgress = KvGet(kv, progressId)]
    /\ last' = NoResponse
    /\ UNCHANGED <<impl, profile, now, kv, ls, session, cnt, recorded, acked>>

\* await kv.set(progressId, progress); return c.json({ revision: updated, progress })
\* progress is computed from what this request has read
SrvCompleteSetProgress(slot) ==
    /\ slot \in DOMAIN pending
    /\ pending[slot].pc = "setProgress"
    /\ LET p == pending[slot]
           progressId == <<"progress", p.auth, p.revision.topic>>
           seen == IF p.hasProgress
                   THEN KvSet(KvSet(EmptyObj, progressId, p.existingProgress),
                              p.revisionId, p.revision)
                   ELSE KvSet(EmptyObj, p.revisionId, p.revision)
           r == SrvCompleteRevisionDo(seen, p.auth, p.revisionId, p.recallScore, now)
       IN  /\ kv' = KvSet(kv, progressId, r.resp.ret.progress)
           /\ last' = r.resp
           /\ recorded' = KvSet(recorded, progressId,
                                (IF KvHas(recorded, progressId)
                                 THEN recorded[progressId] ELSE {})
                                \cup {r.resp.ret.progress.mastery_level})
           /\ acked' = acked \cup {Acknowledged(p.auth, p.revisionId, p.revision, now)}
    /\ cnt' = [cnt EXCEPT !.cmp = @ + 1]
    /\ pending' = [k \in (DOMAIN pending) \ {slot} |-> pending[k]]
    /\ UNCHANGED <<impl, profile, now, ls, session>>

\* a kv.get or kv.set of the complete handler throws
SrvCompleteRevisionFails(auth, revisionId, recallScore, failAt) ==
    /\ impl = "server"
    /\ profile.faults
    /\ auth # Anon
    /\ cnt.cmp < profile.maxCmp
    /\ failAt > 1 =>
          SrvCompleteRevisionDo(kv, auth, revisionId, recallScore, now).resp.status = 200
    /\ LET r == SrvCompleteRevisionFailDo(kv, auth, revisionId, recallScore, now, failAt)
       IN  /\ kv' = r.store
           /\ last' = r.resp
    /\ UNCHANGED <<pending, acked, recorded, impl, profile, now, ls, session, cnt>>

SrvDashboard(auth) ==
    /\ impl = "server"
    /\ last' = SrvDashboardDo(kv, auth, now)
    /\ UNCHANGED <<pending, acked, recorded, impl, profile, now, kv, ls, session, cnt>>

\* the clock advances by one slot; the response on record is that of a
\* request handled at the current instant, so it is dropped
Tick ==
    /\ now < profile.maxNow
    /\ now' = now + 1
    /\ last' = NoResponse
    /\ UNCHANGED <<pending, acked, recorded, impl, profile, kv, ls, session, cnt>>

\* ----------------------------------------- client library (localStorage)
\* localStorage.getItem(key) parsed, or the default
LsGet(store, key, default) == IF key \in DOMAIN store THEN store[key] ELSE default
LsSet(store, key, value) ==
    [k \in (DOMAIN store) \cup {key} |-> IF k = key THEN value ELSE store[k]]

CurrentDiagnosticKey == <<"current_diagnostic">>

\* Math.round(n / d) for n, d >= 0
Round(n, d) == (2 * n + d) \div (2 * d)

\* the revision pushed for one day; topic is left out when it is undefined
CliRevisionRecord(stamp, diag, day, t) ==
    Spread([id |-> <<"rev", stamp, day>>, revision_day |-> day,
            scheduled_date |-> AddDays(t, day), completed |-> FALSE],
           IF Has(diag, "topic") THEN [topic |-> diag.topic] ELSE EmptyObj)

RECURSIVE CliPushRevisions(_, _, _, _, _)
CliPushRevisions(revisions, stamp, diag, t, i) ==
    IF i > Len(RevisionDays) THEN revisions
    ELSE CliPushRevisions(Append(revisions, CliRevisionRecord(stamp, diag, RevisionDays[i], t)),
                          stamp, diag, t, i + 1)

\* revisions.findIndex(r => r.id === revisionId), 0 for -1
RECURSIVE FindIndex(_, _, _)
FindIndex(revisions, revisionId, i) ==
    IF i > Len(revisions) THEN 0
    ELSE IF revisions[i].id = revisionId THEN i
    ELSE FindIndex(revisions, revisionId, i + 1)

RECURSIVE SumScores(_, _)
SumScores(results, i) ==
    IF i = 0 THEN 0 ELSE SumScores(results, i - 1) + OrZero(results[i], "score")

\* r.scheduled_date.split('T')[0] <= today && !r.completed
CliIsDue(r, t) == IsoLeq(IsoDate(r.scheduled_date), IsoDate(t)) /\ NotCompleted(r)

\* api.generateDiagnostic, production branch
CliGenerateDo(store, topic, stamp) ==
    LET diagnostic == [id |-> <<"diag", stamp>>, topic |-> topic, questions |-> 8,
                       completed |-> FALSE]
    IN  [store |-> LsSet(store, CurrentDiagnosticKey, diagnostic),
         resp |-> Response("generate", Anon, 200, diagnostic.id, <<>>,
                           {CurrentDiagnosticKey}, diagnostic, <<>>)]

\* api.submitDiagnostic, production branch
CliSubmitDo(store, sess, diagnosticId, correctAnswers, confidence, t, stamp) ==
    LET storedDiag == LsGet(store, CurrentDiagnosticKey, EmptyObj)
        correct == IF Has(storedDiag, "questions") THEN correctAnswers ELSE 0
        total == IF Has(storedDiag, "questions") THEN storedDiag.questions ELSE 8
        score == (correct * 100) \div total
        result == Spread([score |-> score, correct |-> correct, total |-> total,
                          confidence |-> confidence, completed_at |-> t],
                         Spread(IF Has(storedDiag, "id")
                                THEN [diagnosticId |-> storedDiag.id] ELSE EmptyObj,
                                IF Has(storedDiag, "topic")
                                THEN [topic |-> storedDiag.topic] ELSE EmptyObj))
        arg == [score |-> score, confidence |-> confidence, at |-> t,
                topic |-> IF Has(storedDiag, "topic") THEN storedDiag.topic ELSE "undefined"]
    IN  IF sess = Anon
        THEN [store |-> store,
              resp |-> Response("submit", sess, 200, diagnosticId, arg, {}, result, <<>>)]
        ELSE LET results == Append(LsGet(store, <<"results", sess>>, <<>>), result)
                 revisions == CliPushRevisions(LsGet(store, <<"revisions", sess>>, <<>>),
                                               stamp, storedDiag, t, 1)
             IN  [store |-> LsSet(LsSet(store, <<"results", sess>>, results),
                                  <<"revisions", sess>>, revisions),
                  resp |-> Response("submit", sess, 200, diagnosticId, arg,
                                    {<<"results", sess>>, <<"revisions", sess>>},
                                    result, <<>>)]

\* api.getRevisions, production branch
CliGetRevisionsDo(store, sess, t) ==
    IF sess = Anon
    THEN Response("getRevisions", sess, 401, <<>>, <<>>, {}, <<>>, <<>>)
    ELSE LET revisions == LsGet(store, <<"revisions", sess>>, <<>>)
             Due(r) == CliIsDue(r, t)
         IN  Response("getRevisions", sess, 200, <<>>, [at |-> t], {},
                      SelectSeq(revisions, Due), <<>>)

\* api.completeRevision, production branch
CliCompleteRevisionDo(store, sess, revisionId, recallScore, t) ==
    IF sess = Anon
    THEN [store |-> store,
          resp |-> Response("complete", sess, 401, revisionId, <<>>, {}, <<>>, <<>>)]
    ELSE LET revisions == LsGet(store, <<"revisions", sess>>, <<>>)
             index == FindIndex(revisions, revisionId, 1)
             updated == Spread(revisions[index],
                               [completed |-> TRUE, recall_score |-> recallScore,
                                completed_at |-> t])
         IN  IF index # 0
             THEN [store |-> LsSet(store, <<"revisions", sess>>,
                                   [revisions EXCEPT ![index] = updated]),
                   resp |-> Response("complete", sess, 200, revisionId, recallScore,
                                     {<<"revisions", sess>>},
                                     [found |-> TRUE, revision |-> updated,
                                      progress |-> EmptyObj],
                                     [revision |-> revisions[index]])]
             ELSE [store |-> store,
                   resp |-> Response("complete", sess, 200, revisionId, recallScore, {},
                                     [found |-> FALSE, progress |-> EmptyObj], <<>>)]

\* api.getWeakConcepts, production branch
CliGetWeakConceptsDo(store, sess) ==
    IF sess = Anon
    THEN Response("getWeakConcepts", sess, 401, <<>>, <<>>, {}, <<>>, <<>>)
    ELSE LET results == LsGet(store, <<"results", sess>>, <<>>)
             Weak(r) == r.score < 70
         IN  Response("getWeakConcepts", sess, 200, <<>>, <<>>, {},
                      SelectSeq(results, Weak), <<>>)

\* api.getDashboard, production branch
CliDashboardDo(store, sess, t) ==
    IF sess = Anon
    THEN Response("dashboard", sess, 200, <<>>, [at |-> t], {},
                  [weakConceptsCount |-> 0, upcomingRevisionsCount |-> 0,
                   masteryProgress |-> 0, streak |-> 0], <<>>)
    ELSE LET results == LsGet(store, <<"results", sess>>, <<>>)
             revisions == LsGet(store, <<"revisions", sess>>, <<>>)
             Weak(r) == r.score < 70
             Pending(r) == CliIsDue(r, t)
             Completed(r) == ~NotCompleted(r)
         IN  Response("dashboard", sess, 200, <<>>, [at |-> t], {},
                      [weakConceptsCount |-> Len(SelectSeq(results, Weak)),
                       upcomingRevisionsCount |-> Len(SelectSeq(revisions, Pending)),
                       masteryProgress |-> Len(results),
                       streak |-> MinSeven(Len(SelectSeq(revisions, Completed)))], <<>>)

\* ------------------------------------------------ client library, mock mode
\* user ? user.id : 'unknown'
MockUserId(sess) == IF sess = Anon THEN "unknown" ELSE sess

\* the topics the analysis service names as weak
WeakAreas == <<"area1", "area2">>

RECURSIVE MockPushWeak(_, _, _)
MockPushWeak(weak, n, t) ==
    IF n = 0 THEN weak
    ELSE Append(MockPushWeak(weak, n - 1, t),
                [topic |-> WeakAreas[n], score |-> 50, created_at |-> t])

\* api.generateDiagnostic, mock branch (topic-based fallback: 5 questions)
MockGenerateDo(store, topic, stamp) ==
    LET diagnostic == [id |-> <<"demo-diag", stamp>>, topic |-> topic, questions |-> 5,
                       completed |-> FALSE]
    IN  [store |-> LsSet(store, CurrentDiagnosticKey, diagnostic),
         resp |-> Response("generate", Anon, 200, diagnostic.id, <<>>,
                           {CurrentDiagnosticKey}, diagnostic, <<>>)]

\* api.submitDiagnostic, mock branch. analysis is what analyzeQuizResults
\* yields: -2 it throws, -1 nothing, n >= 0 an analysis naming n weak topics
MockSubmitDo(store, sess, diagnosticId, correctAnswers, confidence, analysis, t, stamp) ==
    LET userId == MockUserId(sess)
        hasDiag == CurrentDiagnosticKey \in DOMAIN store
        storedDiag == LsGet(store, CurrentDiagnosticKey, EmptyObj)
        correct == IF hasDiag THEN correctAnswers ELSE 0
        total == IF hasDiag THEN storedDiag.questions ELSE 8
        score == IF hasDiag THEN Round(correct * 100, total) ELSE 0
        store1 == IF hasDiag /\ analysis >= 0
                  THEN LsSet(store, <<"mock_weak", userId>>,
                             MockPushWeak(LsGet(store, <<"mock_weak", userId>>, <<>>),
                                          analysis, t))
                  ELSE store
        result == [diagnosticId |-> diagnosticId, score |-> score, correct |-> correct,
                   total |-> total, confidence |-> confidence,
                   topic |-> IF hasDiag THEN storedDiag.topic ELSE "Unknown",
                   completed_at |-> t]
        results == Append(LsGet(store1, <<"mock_results", userId>>, <<>>), result)
        revisions == CliPushRevisions(LsGet(store1, <<"mock_revisions", userId>>, <<>>),
                                      stamp, result, t, 1)
    IN  [store |-> LsSet(LsSet(store1, <<"mock_results", userId>>, results),
                         <<"mock_revisions", userId>>, revisions),
         resp |-> Response("submit", userId, 200, diagnosticId,
                           [score |-> score, confidence |-> confidence, at |-> t,
                            topic |-> result.topic],
                           {<<"mock_results", userId>>, <<"mock_revisions", userId>>}
                           \cup (IF hasDiag /\ analysis >= 0
                                 THEN {<<"mock_weak", userId>>} ELSE {}),
                           result, <<>>)]

\* api.getRevisions, mock branch
MockGetRevisionsDo(store, sess, t) ==
    LET revisions == LsGet(store, <<"mock_revisions", MockUserId(sess)>>, <<>>)
    IN  Response("getRevisions", MockUserId(sess), 200, <<>>, [at |-> t], {},
                 SelectSeq(revisions, NotCompleted), <<>>)

\* api.completeRevision, mock branch
MockCompleteRevisionDo(store, sess, revisionId, recallScore) ==
    LET userId == MockUserId(sess)
        revisions == LsGet(store, <<"mock_revisions", userId>>, <<>>)
        index == FindIndex(revisions, revisionId, 1)
        updated == Spread(revisions[index],
                          [completed |-> TRUE, recall_score |-> recallScore])
    IN  IF index # 0
        THEN [store |-> LsSet(store, <<"mock_revisions", userId>>,
                              [revisions EXCEPT ![index] = updated]),
              resp |-> Response("complete", userId, 200, revisionId, recallScore,
                                {<<"mock_revisions", userId>>},
                                [found |-> TRUE, revision |-> updated, progress |-> EmptyObj],
                                [revision |-> revisions[index]])]
        ELSE [store |-> store,
              resp |-> Response("complete", userId, 200, revisionId, recallScore, {},
                                [found |-> FALSE, progress |-> EmptyObj], <<>>)]

\* api.getWeakConcepts, mock branch
MockGetWeakConceptsDo(store, sess) ==
    Response("getWeakConcepts", MockUserId(sess), 200, <<>>, <<>>, {},
             LsGet(store, <<"mock_weak", MockUserId(sess)>>, <<>>), <<>>)

\* api.getDashboard, mock branch
MockDashboardDo(store, sess, t) ==
    LET userId == MockUserId(sess)
        weak == LsGet(store, <<"mock_weak", userId>>, <<>>)
        revisions == LsGet(store, <<"mock_revisions", userId>>, <<>>)
        Completed(r) == ~NotCompleted(r)
        pendingRevisions == SelectSeq(revisions, NotCompleted)
        completedRevisions == SelectSeq(revisions, Completed)
        results == LsGet(store, <<"mock_results", userId>>, <<>>)
        avgScoreNum == SumScores(results, Len(results))
    IN  Response("dashboard", userId, 200, <<>>, [at |-> t], {},
                 [weakConceptsCount |-> Len(weak),
                  upcomingRevisionsCount |-> Len(pendingRevisions),
                  masteryProgress |-> IF Len(results) > 0
                                      THEN Round(avgScoreNum, Len(results)) ELSE 0,
                  streak |-> MinSeven(Len(completedRevisions))], <<>>)

\* getDemoWeakConcepts(): the concepts of DEMO_PROGRESS with a score below 60
DemoConcepts == <<"Thermodynamics", "Linear Algebra", "Probability", "Chemical Bonding">>

DemoRevisionRecord(concept, day, t) ==
    [id |-> <<"demo-rev", concept, day>>, topic |-> concept, revision_day |-> day,
     scheduled_date |-> AddDays(t, day), completed |-> FALSE]

RECURSIVE DemoRevisions(_, _)
DemoRevisions(n, t) ==
    IF n = 0 THEN <<>>
    ELSE DemoRevisions(n - 1, t)
         \o [i \in 1..Len(RevisionDays) |-> DemoRevisionRecord(DemoConcepts[n], RevisionDays[i], t)]

\* setupLocalStorage(initializeDemoState()) at instant t
DemoStore(t) == LsSet(EmptyObj, <<"mock_revisions", "u1">>, DemoRevisions(Len(DemoConcepts), t))

\* api.signin / api.signout: the session the later calls see
SignIn(u) ==
    /\ impl \in {"client", "mock"}
    /\ session # u
    /\ session' = u
    /\ UNCHANGED <<pending, acked, recorded, impl, profile, now, kv, ls, last, cnt>>

SignOut ==
    /\ impl \in {"client", "mock"}
    /\ profile.anon
    /\ session # Anon
    /\ session' = Anon
    /\ UNCHANGED <<pending, acked, recorded, impl, profile, now, kv, ls, last, cnt>>

CliGenerate(topic) ==
    /\ impl \in {"client", "mock"}
    /\ cnt.gen < profile.maxGen
    /\ LET r == IF impl = "client" THEN CliGenerateDo(ls, topic, cnt.gen + 1)
                ELSE MockGenerateDo(ls, topic, cnt.gen + 1)
       IN  /\ ls' = r.store
           /\ last' = r.resp
    /\ cnt' = [cnt EXCEPT !.gen = @ + 1]
    /\ UNCHANGED <<pending, acked, recorded, impl, profile, now, kv, session>>

CliSubmit(diagnosticId, correct, confidence) ==
    /\ impl = "client"
    /\ cnt.sub < profile.maxSub
    /\ LET r == CliSubmitDo(ls, session, diagnosticId, correct, confidence, now, cnt.sub + 1)
       IN  /\ ls' = r.store
           /\ last' = r.resp
    /\ cnt' = [cnt EXCEPT !.sub = @ + 1]
    /\ UNCHANGED <<pending, acked, recorded, impl, profile, now, kv, session>>

MockSubmit(diagnosticId, correct, confidence, analysis) ==
    /\ impl = "mock"
    /\ cnt.sub < profile.maxSub
    /\ LET r == MockSubmitDo(ls, session, diagnosticId, correct, confidence, analysis,
                             now, cnt.sub + 1)
       IN  /\ ls' = r.store
           /\ last' = r.resp
    /\ cnt' = [cnt EXCEPT !.sub = @ + 1]
    /\ UNCHANGED <<pending, acked, recorded, impl, profile, now, kv, session>>

CliGetRevisions ==
    /\ impl \in {"client", "mock"}
    /\ last' = IF impl = "client" THEN CliGetRevisionsDo(ls, session, now)
               ELSE MockGetRevisionsDo(ls, session, now)
    /\ UNCHANGED <<pending, acked, recorded, impl, profile, now, kv, ls, session, cnt>>

CliCompleteRevision(revisionId, recallScore) ==
    /\ impl \in {"client", "mock"}
    /\ cnt.cmp < profile.maxCmp
    /\ LET r == IF impl = "client"
                THEN CliCompleteRevisionDo(ls, session, revisionId, recallScore, now)
                ELSE MockCompleteRevisionDo(ls, session, revisionId, recallScore)
       IN  /\ ls' = r.store
           /\ last' = r.resp
           /\ cnt' = IF r.resp.written # {} THEN [cnt EXCEPT !.cmp = @ + 1] ELSE cnt
    /\ UNCHANGED <<pending, acked, recorded, impl, profile, now, kv, session>>

CliGetWeakConcepts ==
    /\ impl \in {"client", "mock"}
    /\ last' = IF impl = "client" THEN CliGetWeakConceptsDo(ls, session)
               ELSE MockGetWeakConceptsDo(ls, session)
    /\ UNCHANGED <<pending, acked, recorded, impl, profile, now, kv, ls, session, cnt>>

CliDashboard ==
    /\ impl \in {"client", "mock"}
    /\ last' = IF impl = "client" THEN CliDashboardDo(ls, session, now)
               ELSE MockDashboardDo(ls, session, now)
    /\ UNCHANGED <<pending, acked, recorded, impl, profile, now, kv, ls, session, cnt>>

\* ids the requests are issued with
SrvRevisionIds ==
    (IF profile.anyId THEN DOMAIN kv ELSE {k \in DOMAIN kv : k[1] = "revision"})
    \cup {MissingKey}

SrvDiagnosticIds ==
    (IF profile.anyId THEN DOMAIN kv ELSE {k \in DOMAIN kv : k[1] = "diagnostic"})
    \cup {MissingKey}

CliRevisionLists ==
    {k \in DOMAIN ls : k[1] \in {"revisions", "mock_revisions"}
                        /\ (profile.anyId \/ k[2] = MockUserId(session))}

CliRevisionIds ==
    UNION {{ls[k][i].id : i \in DOMAIN ls[k]} : k \in CliRevisionLists}
    \cup {MissingKey}

CliDiagnosticIds ==
    (IF CurrentDiagnosticKey \in DOMAIN ls THEN {ls[CurrentDiagnosticKey].id} ELSE {})
    \cup {MissingKey}

MockCorrects == {IF c > 5 THEN 5 ELSE c : c \in profile.corrects}

Analyses == IF profile.analysis THEN (-2) .. MaxWeakAreas ELSE {-1}

\* the store after user u1 generated and submitted a diagnostic for each of
\* the first n seed topics, at instant 0
RECURSIVE SrvSeeded(_, _)
SrvSeeded(topics, n) ==
    IF n = 0 THEN EmptyObj
    ELSE LET g == SrvGenerateDo(SrvSeeded(topics, n - 1), "u1", topics[n], n)
         IN  SrvSubmitDo(g.store, "u1", g.resp.id, 4, 3, 0, n).store

RECURSIVE CliSeeded(_, _)
CliSeeded(topics, n) ==
    IF n = 0 THEN EmptyObj
    ELSE LET g == CliGenerateDo(CliSeeded(topics, n - 1), topics[n], n)
         IN  CliSubmitDo(g.store, "u1", g.resp.id, 4, 3, 0, n).store

RECURSIVE MockSeeded(_, _)
MockSeeded(topics, n) ==
    IF n = 0 THEN DemoStore(0)
    ELSE LET g == MockGenerateDo(MockSeeded(topics, n - 1), topics[n], n)
         IN  MockSubmitDo(g.store, "u1", g.resp.id, 4, 3, -1, 0, n).store

Init ==
    /\ profile \in Profiles
    /\ impl \in profile.impls
    /\ now = 0
    /\ kv = IF impl = "server" THEN SrvSeeded(profile.seed, Len(profile.seed)) ELSE EmptyObj
    /\ ls = IF impl = "client" THEN CliSeeded(profile.seed, Len(profile.seed))
            ELSE IF impl = "mock" THEN MockSeeded(profile.seed, Len(profile.seed))
            ELSE EmptyObj
    /\ session = IF impl = "mock" \/ (impl = "client" /\ ~profile.anon) THEN "u1" ELSE Anon
    /\ last = NoResponse
    /\ cnt = [gen |-> Len(profile.seed), sub |-> Len(profile.seed), cmp |-> 0]
    /\ recorded = EmptyObj
    /\ acked = {}
    /\ pending = EmptyObj

Next ==
    \/ Tick
    \/ \E auth \in Auths, topic \in profile.topics : SrvGenerate(auth, topic)
    \/ \E auth \in Auths, id \in SrvDiagnosticIds,
          correct \in profile.corrects, confidence \in profile.confs :
            SrvSubmit(auth, id, correct, confidence)
    \/ \E auth \in Auths, id \in SrvDiagnosticIds,
          correct \in profile.corrects, confidence \in profile.confs,
          failAt \in 1..(3 + Len(RevisionDays)) :
            SrvSubmitFails(auth, id, correct, confidence, failAt)
    \/ \E auth \in Auths : SrvGetRevisions(auth)
    \/ \E auth \in Auths, id \in SrvRevisionIds, recallScore \in profile.scores :
            SrvCompleteRevision(auth, id, recallScore)
    \/ \E auth \in Auths, id \in SrvRevisionIds, recallScore \in profile.scores,
          failAt \in 1..4 :
            SrvCompleteRevisionFails(auth, id, recallScore, failAt)
    \/ \E slot \in 1..MaxInflight, auth \in Auths, id \in SrvRevisionIds,
          recallScore \in profile.scores :
            SrvCompleteStart(slot, auth, id, recallScore)
    \/ \E slot \in 1..MaxInflight : SrvCompleteSetRevision(slot)
    \/ \E slot \in 1..MaxInflight : SrvCompleteGetProgress(slot)
    \/ \E slot \in 1..MaxInflight : SrvCompleteSetProgress(slot)
    \/ \E auth \in Auths : SrvDashboard(auth)
    \/ \E u \in profile.users : SignIn(u)
    \/ SignOut
    \/ \E topic \in profile.topics : CliGenerate(topic)
    \/ \E id \in CliDiagnosticIds, correct \in profile.corrects, confidence \in profile.confs :
            CliSubmit(id, correct, confidence)
    \/ \E id \in CliDiagnosticIds, correct \in MockCorrects, confidence \in profile.confs,
          analysis \in Analyses :
            MockSubmit(id, correct, confidence, analysis)
    \/ CliGetRevisions
    \/ \E id \in CliRevisionIds, recallScore \in profile.scores :
            CliCompleteRevision(id, recallScore)
    \/ CliGetWeakConcepts
    \/ CliDashboard

Spec == Init /\ [][Next]_vars

\* ------------------------------------------------------------------ claims
\* The revisions stored for a user, whichever implementation runs: handles
\* are keys of the key-value store or positions of the localStorage list.
RevisionList(store, u) ==
    LsGet(store, <<IF impl = "client" THEN "revisions" ELSE "mock_revisions", u>>, <<>>)
RevisionHandles(u) ==
    IF impl = "server" THEN KvKeysByPrefix(kv, "revision", u)
    ELSE DOMAIN RevisionList(ls, u)
RevisionAt(u, h) == IF impl = "server" THEN kv[h] ELSE RevisionList(ls, u)[h]
IsCompleted(r) == Has(r, "completed") /\ r.completed
\* the records of a response that lists records
Listed(ret) == IF impl = "server" THEN ret ELSE {ret[i] : i \in DOMAIN ret}
Answered(op) == last.op = op /\ last.status = 200
\* the response of a request during which a storage call threw
StorageFailure(resp) == resp.status = 500 /\ Has(resp.arg, "failAt")

\* C1: a successful submitDiagnostic at instant T writes exactly three
\* revisions for the user and topic, one for each of the days 1, 3 and 7,
\* each not completed and scheduled T + day calendar days later at the same
\* time of day; no other revision of the user is touched.
C1_SubmitStep ==
    (cnt'.sub = cnt.sub + 1 /\ last'.user # Anon) =>
        LET u == last'.user
            Scheduled(r) == /\ r.completed = FALSE
                            /\ DayOf(r.scheduled_date) = DayOf(now) + r.revision_day
                            /\ TimeOfDay(r.scheduled_date) = TimeOfDay(now)
        IN  IF impl = "server"
            THEN LET before == KvKeysByPrefix(kv, "revision", u)
                     after == KvKeysByPrefix(kv', "revision", u)
                     cohort == {k \in after : k[3] = last'.arg.topic}
                 IN  /\ Cardinality(cohort) = 3
                     /\ {k[4] : k \in cohort} = {1, 3, 7}
                     /\ \A k \in cohort : kv'[k].revision_day = k[4] /\ Scheduled(kv'[k])
                     /\ before \subseteq after
                     /\ \A k \in after \ cohort : k \in before /\ kv'[k] = kv[k]
            ELSE LET before == RevisionList(ls, u)
                     after == RevisionList(ls', u)
                     cohort == (Len(before) + 1) .. Len(after)
                 IN  /\ Len(after) = Len(before) + 3
                     /\ SubSeq(after, 1, Len(before)) = before
                     /\ {after[i].revision_day : i \in cohort} = {1, 3, 7}
                     /\ \A i \in cohort : Scheduled(after[i])
C1_ThreeRevisionsScheduled == [][C1_SubmitStep]_vars

\* C1 witness: a diagnostic was submitted in the second half of a December
\* day and its day-7 revision is stored with a date in January.
C1_Witness ==
    /\ Answered("submit") /\ last.user # Anon
    /\ IsoDate(last.arg.at)[2] = 12 /\ TimeOfDay(last.arg.at) = 1
    /\ \E h \in RevisionHandles(last.user) :
          /\ RevisionAt(last.user, h).revision_day = 7
          /\ IsoDate(RevisionAt(last.user, h).scheduled_date)[2] = 1
          /\ RevisionAt(last.user, h).scheduled_date = last.arg.at + 7 * SlotsPerDay

\* C2: dueRevisionsFor(user, asOf) returns exactly the stored revisions of
\* the user that are not completed and whose scheduled calendar date is on
\* or before the calendar date of asOf.
C2_DueHandles(u, t) ==
    {h \in RevisionHandles(u) :
        DayOf(RevisionAt(u, h).scheduled_date) <= DayOf(t) /\ ~IsCompleted(RevisionAt(u, h))}
C2_DueIffDateAndNotCompleted ==
    Answered("getRevisions") =>
        Listed(last.ret) = {RevisionAt(last.user, h) : h \in C2_DueHandles(last.user, last.arg.at)}

\* C3: the mastery level a completion stores is the one the rule gives for
\* the day scores stored before the completion, whatever the new score is.
C3_Stored(p, f) == IF Has(p, f) THEN p[f] ELSE 0
C3_Level(p, day) ==
    CASE day = 7 /\ C3_Stored(p, "day7_score") >= 80 -> "mastered"
      [] ~(day = 7 /\ C3_Stored(p, "day7_score") >= 80)
         /\ day >= 3 /\ C3_Stored(p, "day3_score") >= 70 /\ C3_Stored(p, "day1_score") >= 60
           -> "improving"
      [] day = 1 /\ C3_Stored(p, "day1_score") >= 60 -> "learning"
      [] OTHER -> "weak"
C3_MasteryFromStoredScores ==
    (impl = "server" /\ Answered("complete") /\ Has(last.pre.revision, "revision_day")) =>
        LET day == last.pre.revision.revision_day
            progressId == <<"progress", last.user, last.pre.revision.topic>>
        IN  /\ day \in {1, 3, 7}
            /\ last.ret.progress.mastery_level = C3_Level(last.pre.progress, day)
            /\ kv[progressId].mastery_level = C3_Level(last.pre.progress, day)

\* C3 witness: day 7 is completed again with a low score and the level is
\* "mastered" because the score stored before was 80.
C3_Witness ==
    /\ impl = "server" /\ Answered("complete")
    /\ Has(last.pre.revision, "revision_day") /\ last.pre.revision.revision_day = 7
    /\ last.arg < 80
    /\ last.ret.progress.mastery_level = "mastered"


\* C4: a successful submitDiagnostic records a weak concept for the user
\* exactly when the score is below 70 or the confidence is below 3. On the
\* server the record is the one under the topic's weak key; in the client
\* library it is a new entry of the list getWeakConcepts returns.
C4_Recorded ==
    LET u == last'.user
    IN  IF impl = "server"
        THEN LET weakConceptId == <<"weak", u, last'.arg.topic>>
             IN  /\ weakConceptId \in DOMAIN kv'
                 /\ kv'[weakConceptId].created_at = now
                 /\ kv'[weakConceptId].score = last'.arg.score
                 /\ kv'[weakConceptId].confidence = last'.arg.confidence
        ELSE IF impl = "client"
        THEN Len(CliGetWeakConceptsDo(ls', u).ret) > Len(CliGetWeakConceptsDo(ls, u).ret)
        ELSE Len(LsGet(ls', <<"mock_weak", u>>, <<>>)) > Len(LsGet(ls, <<"mock_weak", u>>, <<>>))
C4_SubmitStep ==
    (cnt'.sub = cnt.sub + 1 /\ last'.user # Anon) =>
        (C4_Recorded <=> (last'.arg.score < 70 \/ last'.arg.confidence < 3))
C4_WeakIffLowScoreOrConfidence == [][C4_SubmitStep]_vars

\* C5: completeRevision with an id that names no revision of the caller, and
\* submitDiagnostic with an id that names no diagnostic of the caller, fail
\* with status 404 (NotFoundError) and change nothing.
C5_OwnRevision(u, id) ==
    IF impl = "server" THEN id \in KvKeysByPrefix(kv, "revision", u)
    ELSE \E h \in RevisionHandles(u) : RevisionAt(u, h).id = id
C5_OwnDiagnostic(u, id) ==
    IF impl = "server"
    THEN id \in KvKeysByPrefix(kv, "diagnostic", u)
    ELSE /\ CurrentDiagnosticKey \in DOMAIN ls
         /\ ls[CurrentDiagnosticKey].id = id
C5_Step ==
    LET u == last'.user
        unknown == \/ last'.op = "complete" /\ ~C5_OwnRevision(u, last'.id)
                   \/ last'.op = "submit" /\ ~C5_OwnDiagnostic(u, last'.id)
    IN  (last' # last /\ u # Anon /\ last'.status # 401 /\ ~StorageFailure(last')
         /\ unknown) =>
            (last'.status = 404 /\ kv' = kv /\ ls' = ls)
C5_UnknownIdIsNotFound == [][C5_Step]_vars

\* C6: no completeRevision succeeds with a recallScore outside 1..10, and
\* every recall score and every day score that is stored lies in 1..10.
C6_Users == profile.users \cup {"unknown"}
C6_ProgressScoresInRange ==
    \A k \in DOMAIN kv :
        k[1] = "progress" =>
            \A f \in {"day1_score", "day3_score", "day7_score"} :
                Has(kv[k], f) => kv[k][f] \in 1..10
C6_RecallScoreInRange ==
    /\ Answered("complete") => last.arg \in 1..10
    /\ \A u \in C6_Users : \A h \in RevisionHandles(u) :
          Has(RevisionAt(u, h), "recall_score") => RevisionAt(u, h).recall_score \in 1..10
    /\ C6_ProgressScoresInRange

\* C7: after a successful completeRevision of a day-N revision the topic's
\* progress record holds the recall score in its dayN_score field and its
\* two other day fields are as they were before the call.
C7_DayFields == {"day1_score", "day3_score", "day7_score"}
C7_Progress ==
    IF impl = "server"
    THEN KvGet(kv, <<"progress", last.user, last.pre.revision.topic>>)
    ELSE last.ret.progress
C7_DayScoreSet ==
    (/\ Answered("complete")
     /\ Has(last.pre, "revision")
     /\ Has(last.pre.revision, "revision_day")) =>
        LET field == DayScoreField(last.pre.revision)
            before == IF Has(last.pre, "progress") THEN last.pre.progress ELSE EmptyObj
        IN  /\ field \in C7_DayFields
            /\ Has(C7_Progress, field)
            /\ C7_Progress[field] = last.arg
            /\ \A f \in C7_DayFields \ {field} :
                  /\ Has(C7_Progress, f) <=> Has(before, f)
                  /\ Has(before, f) => C7_Progress[f] = before[f]

\* C8: the streak a dashboard reports is the number of the user's completed
\* revisions capped at 7: between 0 and 7, and 0 when none is completed.
C8_CompletedCount(u) ==
    Cardinality({h \in RevisionHandles(u) : IsCompleted(RevisionAt(u, h))})
C8_StreakIsCappedCount ==
    Answered("dashboard") =>
        LET n == C8_CompletedCount(last.user)
        IN  /\ last.ret.streak = (IF n < 7 THEN n ELSE 7)
            /\ last.ret.streak \in 0..7
            /\ (n = 0 => last.ret.streak = 0)

\* C8 witness: a dashboard is read when more than seven revisions of the
\* user are completed, and it reports 7.
C8_Witness ==
    /\ Answered("dashboard")
    /\ C8_CompletedCount(last.user) > 7
    /\ last.ret.streak = 7

\* C9: the upcomingRevisionsCount a dashboard reports at date d is the number
\* of the user's revisions that are not completed and scheduled on or before
\* d; pending revisions that are not yet due are not counted.
C9_UpcomingIsDueCount ==
    Answered("dashboard") =>
        last.ret.upcomingRevisionsCount = Cardinality(C2_DueHandles(last.user, last.arg.at))

\* C10: the masteryProgress a dashboard reports is the number of the user's
\* progress records (one for each topic with a completed revision), not an
\* average score and not the number of diagnostic results.
C10_ProgressCount(u) ==
    IF impl = "server" THEN Cardinality(KvKeysByPrefix(kv, "progress", u))
    ELSE Cardinality({RevisionAt(u, h).topic :
                        h \in {g \in RevisionHandles(u) : IsCompleted(RevisionAt(u, g))}})
C10_MasteryProgressIsRecordCount ==
    Answered("dashboard") => last.ret.masteryProgress = C10_ProgressCount(last.user)

\* C11: on the edge function the weakConceptsCount of a user is the number
\* of the user's diagnostic submissions with score < 70 or confidence < 3,
\* several on one topic counted each.
C11_QualifyingResults(u) ==
    {k \in KvKeysByPrefix(kv, "result", u) : kv[k].score < 70 \/ kv[k].confidence < 3}
C11_WeakCountIsQualifyingSubmissions ==
    (impl = "server" /\ Answered("dashboard")) =>
        last.ret.weakConceptsCount = Cardinality(C11_QualifyingResults(last.user))

\* C12: no step lowers the weakConceptsCount the dashboard reports for a
\* user.
C12_WeakCount(kvs, lss, u) ==
    IF impl = "server" THEN SrvDashboardDo(kvs, u, now).ret.weakConceptsCount
    ELSE IF impl = "client" THEN CliDashboardDo(lss, u, now).ret.weakConceptsCount
    ELSE MockDashboardDo(lss, u, now).ret.weakConceptsCount
C12_Step ==
    (kv' # kv \/ ls' # ls) =>
        \A u \in C6_Users : C12_WeakCount(kv', ls', u) >= C12_WeakCount(kv, ls, u)
C12_WeakCountNeverDecreases == [][C12_Step]_vars

\* C12 witness: a user with a weak concept on record has just submitted a
\* diagnostic that is not weak (score >= 70 and confidence >= 3).
C12_Witness ==
    /\ Answered("submit") /\ last.user # Anon
    /\ last.arg.score >= 70 /\ last.arg.confidence >= 3
    /\ C12_WeakCount(kv, ls, last.user) > 0

\* C13: a submitDiagnostic on a topic that already has revisions leaves
\* every stored revision of the user as it was and adds three revisions for
\* the topic.
C13_Revisions(kvs, lss, u) ==
    IF impl = "server" THEN [k \in KvKeysByPrefix(kvs, "revision", u) |-> kvs[k]]
    ELSE RevisionList(lss, u)
C13_OfTopic(revisions, topic) ==
    {h \in DOMAIN revisions : Has(revisions[h], "topic") /\ revisions[h].topic = topic}
C13_Step ==
    LET u == last'.user
        before == C13_Revisions(kv, ls, u)
        after == C13_Revisions(kv', ls', u)
    IN  (/\ cnt'.sub = cnt.sub + 1 /\ u # Anon
         /\ C13_OfTopic(before, last'.arg.topic) # {}) =>
            /\ \A h \in DOMAIN before : h \in DOMAIN after /\ after[h] = before[h]
            /\ Cardinality(C13_OfTopic(after, last'.arg.topic))
                 = Cardinality(C13_OfTopic(before, last'.arg.topic)) + 3
C13_ResubmitAddsCohort == [][C13_Step]_vars

\* C14: a stored revision that is completed stays stored and completed
\* through every step.
C14_Step ==
    \A u \in C6_Users :
        LET before == C13_Revisions(kv, ls, u)
            after == C13_Revisions(kv', ls', u)
        IN  \A h \in DOMAIN before :
                IsCompleted(before[h]) => (h \in DOMAIN after /\ IsCompleted(after[h]))
C14_CompletionIsOneWay == [][C14_Step]_vars

\* C15: completeRevision on a revision of the caller that is already
\* completed succeeds, leaves it completed, stores the new recall score and
\* the new completion time in it and the new recall score in the topic's
\* dayN_score.
C15_Handle(revisions, id) ==
    IF impl = "server" THEN id
    ELSE CHOOSE h \in DOMAIN revisions : revisions[h].id = id
C15_Step ==
    LET u == last'.user
        id == last'.id
        before == C13_Revisions(kv, ls, u)
        after == C13_Revisions(kv', ls', u)
        h == C15_Handle(before, id)
        progress == IF impl = "server"
                    THEN KvGet(kv', <<"progress", u, before[h].topic>>)
                    ELSE last'.ret.progress
    IN  (/\ last'.op = "complete" /\ (last' # last \/ cnt' # cnt)
         /\ ~StorageFailure(last')
         /\ u # Anon
         /\ C5_OwnRevision(u, id)
         /\ IsCompleted(before[h])) =>
            /\ last'.status = 200
            /\ h \in DOMAIN after
            /\ IsCompleted(after[h])
            /\ after[h].recall_score = last'.arg
            /\ Has(after[h], "completed_at") /\ after[h].completed_at = now
            /\ Has(progress, DayScoreField(before[h]))
            /\ progress[DayScoreField(before[h])] = last'.arg
C15_RecompletionOverwrites == [][C15_Step]_vars

\* C16: a step that is neither a completion nor a tick of the clock leaves
\* the set of revisions dueRevisionsFor returns for a user as it was, so two
\* calls for the same instant with no completion between return the same set.
C16_Due(kvs, lss, u) ==
    Listed(IF impl = "server" THEN SrvGetRevisionsDo(kvs, u, now).ret
           ELSE IF impl = "client" THEN CliGetRevisionsDo(lss, u, now).ret
           ELSE MockGetRevisionsDo(lss, u, now).ret)
C16_Step ==
    (now' = now /\ pending' = pending
     /\ ~(last'.op = "complete" /\ (last' # last \/ cnt' # cnt))) =>
        \A u \in C6_Users : C16_Due(kv', ls', u) = C16_Due(kv, ls, u)
C16_DueSetStableWithoutCompletion == [][C16_Step]_vars

\* C17: on the server and in the production branch of the client, when a
\* user has submitted one diagnostic on a topic at instant T and completed no
\* revision of it, the revisions of the topic returned as due d calendar days
\* after the date of T are those of the days 1, 3 and 7 that are at most d:
\* none on the date of T, day 1 alone on days 1 and 2, days 1 and 3 from day
\* 3, all three from day 7.
C17_Results(u) ==
    IF impl = "server" THEN [k \in KvKeysByPrefix(kv, "result", u) |-> kv[k]]
    ELSE LsGet(ls, <<"results", u>>, <<>>)
C17_OneOpenCohort(u, topic) ==
    /\ Cardinality(C13_OfTopic(C17_Results(u), topic)) = 1
    /\ C13_OfTopic(C13_Revisions(kv, ls, u), topic) # {}
    /\ \A h \in C13_OfTopic(C13_Revisions(kv, ls, u), topic) :
          ~IsCompleted(C13_Revisions(kv, ls, u)[h])
C17_SubmittedAt(u, topic) ==
    C17_Results(u)[CHOOSE h \in C13_OfTopic(C17_Results(u), topic) : TRUE].completed_at
C17_DueDays(ret, topic) ==
    {r.revision_day : r \in {x \in Listed(ret) : Has(x, "topic") /\ x.topic = topic}}
C17_WitnessAll ==
    /\ impl = "server" /\ Answered("getRevisions")
    /\ \E topic \in profile.topics :
          /\ C17_OneOpenCohort(last.user, topic)
          /\ DayOf(last.arg.at) - DayOf(C17_SubmittedAt(last.user, topic)) = 7
          /\ C17_DueDays(last.ret, topic) = {1, 3, 7}

\* C18: on the server the revisions stored for a user and topic are none or
\* all three of a cohort, also after a submission whose storage write failed
\* partway: no state holds only one or two of them.
C18_StoredOfTopic(u, topic) == {k \in KvKeysByPrefix(kv, "revision", u) : k[3] = topic}
C18_BatchIsAtomic ==
    impl = "server" =>
        \A u \in profile.users, topic \in profile.topics :
            Cardinality(C18_StoredOfTopic(u, topic)) \in {0, Len(RevisionDays)}

\* C19: on the server a progress record of a user and topic appears only in
\* a step that successfully completes a revision of that user and topic,
\* every such step leaves the record stored, no step removes it, and a
\* submission leaves every progress record as it was; so the record exists
\* exactly when a revision of the topic has been completed by the user.
C19_CompletesRevisionOf(u, topic) ==
    /\ last'.op = "complete" /\ last'.status = 200 /\ last'.user = u
    /\ (last' # last \/ cnt' # cnt)
    /\ last'.id \in KvKeysByPrefix(kv, "revision", u)
    /\ kv[last'.id].topic = topic
C19_Step ==
    impl = "server" =>
        /\ \A u \in C6_Users, topic \in profile.topics :
              LET progressId == <<"progress", u, topic>>
              IN  /\ KvHas(kv, progressId) => KvHas(kv', progressId)
                  /\ (~KvHas(kv, progressId) /\ KvHas(kv', progressId))
                        => C19_CompletesRevisionOf(u, topic)
                  /\ C19_CompletesRevisionOf(u, topic) => KvHas(kv', progressId)
        /\ (last'.op = "submit" /\ last' # last) =>
              \A k \in DOMAIN kv \cup DOMAIN kv' :
                  k[1] = "progress" => (KvHas(kv, k) /\ KvHas(kv', k) /\ kv'[k] = kv[k])
C19_ProgressOnlyByCompletion == [][C19_Step]_vars

\* C20: the mastery level can fall. On the server a completion of a day-1
\* revision of a topic whose stored level is improving or mastered records a
\* strictly lower level in the order weak < learning < improving < mastered.
C20_Rank(level) ==
    IF level = "weak" THEN 0 ELSE IF level = "learning" THEN 1
    ELSE IF level = "improving" THEN 2 ELSE 3
C20_DayOneAfterHigherLevel ==
    /\ impl = "server" /\ Answered("complete")
    /\ Has(last.pre.revision, "revision_day") /\ last.pre.revision.revision_day = 1
    /\ Has(last.pre.progress, "mastery_level")
    /\ last.pre.progress.mastery_level \in {"improving", "mastered"}
C20_LevelFalls ==
    C20_DayOneAfterHigherLevel =>
        /\ C20_Rank(last.ret.progress.mastery_level) < C20_Rank(last.pre.progress.mastery_level)
        /\ kv[<<"progress", last.user, last.pre.revision.topic>>].mastery_level
             = last.ret.progress.mastery_level
\* C20 witness: the level of a topic has just fallen, and completions of the
\* topic have recorded each of the four levels.
C20_Witness ==
    /\ C20_DayOneAfterHigherLevel
    /\ C20_Rank(last.ret.progress.mastery_level) < C20_Rank(last.pre.progress.mastery_level)
    /\ recorded[<<"progress", last.user, last.pre.revision.topic>>]
         = {"weak", "learning", "improving", "mastered"}

\* C21: a completeRevision that fails at one of its storage steps applies
\* nothing: the store after the failed call, the revision and the topic's
\* progress record included, is the store before it.
C21_FailedCompleteStep == last'.op = "complete" /\ StorageFailure(last')
C21_FailedCompleteAppliesNothing == [][C21_FailedCompleteStep => kv' = kv]_vars

\* C22: within one submission on the server the result is written before
\* any revision: a step of a submission that writes a revision leaves the
\* result of that submission stored, and a submission whose write of the
\* diagnostic or of the result fails creates or changes no weak concept and
\* no revision.
C22_Changed(prefix) ==
    {k \in DOMAIN kv' : k[1] = prefix /\ (~KvHas(kv, k) \/ kv'[k] # kv[k])}
C22_Step ==
    (impl = "server" /\ last'.op = "submit" /\ last'.user # Anon) =>
        LET resultId == <<"result", last'.user, cnt.sub + 1>>
        IN  /\ C22_Changed("revision") # {} =>
                  (KvHas(kv', resultId) /\ kv'[resultId].diagnosticId = last'.id)
            /\ (StorageFailure(last') /\ last'.arg.failAt <= 2) =>
                  (C22_Changed("revision") = {} /\ C22_Changed("weak") = {}
                   /\ C22_Changed("result") = {})
C22_ResultBeforeRevisions == [][C22_Step]_vars
\* C22 witness: the write of the result failed after the diagnostic was
\* marked completed, and the user has no weak concept and no revision.
C22_Witness ==
    /\ impl = "server" /\ last.op = "submit" /\ StorageFailure(last)
    /\ last.arg.failAt = 2
    /\ kv[last.id].completed
    /\ KvKeysByPrefix(kv, "revision", last.user) = {}
    /\ KvKeysByPrefix(kv, "weak", last.user) = {}
    /\ KvKeysByPrefix(kv, "result", last.user) = {}

\* C23: no interleaving of completions loses an update: on the server the
\* progress record of a topic holds the day score field of every completion
\* of the topic that was answered with 200.
C23_NoLostDayScore ==
    impl = "server" =>
        \A a \in acked : KvHas(kv, a.progress) /\ Has(kv[a.progress], a.field)

\* C24: when every recall score the completions are called with is an
\* integer of 1..10, every mastery level stored, returned or ever recorded
\* is weak.
C24_SliderScoresOnly == \A score \in profile.scores : score \in 1..10
C24_SliderScoresStayWeak ==
    C24_SliderScoresOnly =>
        /\ \A k \in DOMAIN kv : k[1] = "progress" => kv[k].mastery_level = "weak"
        /\ \A k \in DOMAIN recorded : recorded[k] \subseteq {"weak"}
        /\ (impl = "server" /\ Answered("complete")) =>
               last.ret.progress.mastery_level = "weak"
\* C24 witness: a revision whose day already holds the top score 10 is
\* completed again with 10, and the level stored is weak.
C24_Witness ==
    /\ C24_SliderScoresOnly
    /\ impl = "server" /\ Answered("complete") /\ last.arg = 10
    /\ Has(last.pre.progress, DayScoreField(last.pre.revision))
    /\ last.pre.progress[DayScoreField(last.pre.revision)] = 10
    /\ kv[<<"progress", last.user, last.pre.revision.topic>>].mastery_level = "weak"

\* C25: a revision that is due stays due until it is completed: after every
\* step, a tick of the clock or a further submission included, each revision
\* that dueRevisionsFor returned before the step is returned after it or is
\* stored as completed.
C25_DueIds(kvs, lss, u, t) ==
    IF impl = "server"
    THEN {k \in KvKeysByPrefix(kvs, "revision", u) : SrvIsDue(kvs[k], t)}
    ELSE {r.id : r \in Listed(IF impl = "client" THEN CliGetRevisionsDo(lss, u, t).ret
                                ELSE MockGetRevisionsDo(lss, u, t).ret)}
C25_CompletedIds(kvs, lss, u) ==
    IF impl = "server"
    THEN {k \in KvKeysByPrefix(kvs, "revision", u) : IsCompleted(kvs[k])}
    ELSE {RevisionList(lss, u)[i].id : i \in {j \in DOMAIN RevisionList(lss, u) :
                                                  IsCompleted(RevisionList(lss, u)[j])}}
C25_Step ==
    \A u \in profile.users :
        C25_DueIds(kv, ls, u, now)
            \subseteq (C25_DueIds(kv', ls', u, now') \cup C25_CompletedIds(kv', ls', u))
C25_DueStaysDue == [][C25_Step]_vars

\* C26: on the server every stored revision that is not completed is
\* returned as due from the seventh calendar day after its diagnostic on, and
\* a revision that was completed while due is never returned as due again.
C26_DueBySeventhDay ==
    \A u \in profile.users :
        \A k \in KvKeysByPrefix(kv, "revision", u) :
            (/\ ~IsCompleted(kv[k])
             /\ DayOf(now) >= DayOf(kv[k].scheduled_date) - kv[k].revision_day + 7)
                => k \in C25_DueIds(kv, ls, u, now)
C26_CompletedNotDueAgain ==
    \A a \in acked : a.due => a.revision \notin C25_DueIds(kv, ls, a.progress[2], now)
C26_DueOnceThenGone ==
    impl = "server" => (C26_DueBySeventhDay /\ C26_CompletedNotDueAgain)

\* C27: the streak a dashboard reports for a user never decreases across a
\* step, and a completion of a revision that was already completed leaves
\* it unchanged.
C27_Streak(kvs, lss, u) ==
    IF impl = "server" THEN SrvDashboardDo(kvs, u, now).ret.streak
    ELSE IF impl = "client" THEN CliDashboardDo(lss, u, now).ret.streak
    ELSE MockDashboardDo(lss, u, now).ret.streak
C27_Recompletion(u) ==
    /\ last'.op = "complete" /\ last'.status = 200 /\ last'.user = u
    /\ (last' # last \/ cnt' # cnt)
    /\ C5_OwnRevision(u, last'.id)
    /\ IsCompleted(C13_Revisions(kv, ls, u)[C15_Handle(C13_Revisions(kv, ls, u), last'.id)])
C27_Step ==
    \A u \in profile.users :
        /\ C27_Streak(kv', ls', u) >= C27_Streak(kv, ls, u)
        /\ C27_Recompletion(u) => C27_Streak(kv', ls', u) = C27_Streak(kv, ls, u)
C27_StreakNeverDecreases == [][C27_Step]_vars

\* C28: state is isolated per user. A submission or completion issued by
\* one user leaves the revisions, progress records and weak concepts of every
\* other user as they were, and what dueRevisionsFor and the dashboard answer
\* a user is what they answer on the store with the records of every other
\* user removed.
C28_Kinds == {"revision", "progress", "weak", "revisions", "results",
              "mock_revisions", "mock_results", "mock_weak"}
C28_RecordsOf(store, u) ==
    [k \in {j \in DOMAIN store : Len(j) >= 2 /\ j[1] \in C28_Kinds /\ j[2] = u} |-> store[k]]
C28_WithoutOthers(store, u) ==
    [k \in {j \in DOMAIN store : Len(j) >= 2 => j[2] = u} |-> store[k]]
C28_Answers(kvs, lss, u, t) ==
    IF impl = "server"
    THEN <<SrvGetRevisionsDo(kvs, u, t).ret, SrvDashboardDo(kvs, u, t).ret>>
    ELSE IF impl = "client"
    THEN <<CliGetRevisionsDo(lss, u, t).ret, CliDashboardDo(lss, u, t).ret>>
    ELSE <<MockGetRevisionsDo(lss, u, t).ret, MockDashboardDo(lss, u, t).ret>>
C28_Step ==
    /\ last'.op \in {"submit", "complete"} =>
          \A other \in C6_Users \ {last'.user} :
              /\ C28_RecordsOf(kv', other) = C28_RecordsOf(kv, other)
              /\ C28_RecordsOf(ls', other) = C28_RecordsOf(ls, other)
    /\ \A u \in profile.users :
          (C28_WithoutOthers(kv', u) # kv' \/ C28_WithoutOthers(ls', u) # ls') =>
              C28_Answers(kv', ls', u, now')
                = C28_Answers(C28_WithoutOthers(kv', u), C28_WithoutOthers(ls', u), u, now')
C28_UsersAreIsolated == [][C28_Step]_vars
\* C28 witness: a user asked to complete a revision of another user, and the
\* request was refused or found nothing; the other user's revision stands.
C28_Witness ==
    /\ last.op = "complete" /\ last.user \in profile.users
    /\ \E other \in C6_Users \ {last.user} :
          /\ \E h \in RevisionHandles(other) :
                /\ last.id = (IF impl = "server" THEN h ELSE RevisionAt(other, h).id)
                /\ ~IsCompleted(RevisionAt(other, h))
          /\ ~C5_OwnRevision(last.user, last.id)
    /\ RevisionHandles(last.user) # {}

\* C29: every revision a successful dueRevisionsFor returns carries an id,
\* and a completeRevision of the same user with that id succeeds on exactly
\* that revision.
C29_CompleteWith(id, score) ==
    IF impl = "server" THEN SrvCompleteRevisionDo(kv, last.user, id, score, now).resp
    ELSE IF impl = "client" THEN CliCompleteRevisionDo(ls, last.user, id, score, now).resp
    ELSE MockCompleteRevisionDo(ls, IF last.user = MockUserId(Anon) THEN Anon ELSE last.user,
                                id, score).resp
C29_DueCanBeCompleted ==
    Answered("getRevisions") =>
        \A r \in Listed(last.ret) :
            /\ Has(r, "id")
            /\ \A score \in profile.scores :
                  /\ C29_CompleteWith(r.id, score).status = 200
                  /\ C29_CompleteWith(r.id, score).written # {}
                  /\ C29_CompleteWith(r.id, score).pre.revision = r

\* C30: on the server a completeRevision whose id names a stored record of
\* the caller that is not a revision (a diagnostic, a weak concept, a
\* progress record) is answered 404 and changes nothing.
C30_OwnNonRevision(u, id) ==
    /\ KvHas(kv, id) /\ id[1] # "revision"
    /\ Has(kv[id], "user_id") /\ kv[id].user_id = u
C30_Step ==
    (/\ impl = "server" /\ last'.op = "complete" /\ last' # last
     /\ ~StorageFailure(last')
     /\ C30_OwnNonRevision(last'.user, last'.id)) =>
        (last'.status = 404 /\ kv' = kv)
C30_NonRevisionIdIsNotFound == [][C30_Step]_vars

====
